---- MODULE Spec2Model ----
(***************************************************************************)
(* Model of src/src/encode.rs: the post-order encoder, the in-place flip   *)
(* to pre-order, the parent-count arithmetic, the flipper state machine    *)
(* and the incremental Writer.                                             *)
(*                                                                         *)
(* The hash module (hash::State, hash_node, finalize_hash, encode_len,     *)
(* decode_len, largest_power_of_two and the size constants) is not part of *)
(* the source tree; it is modelled from the specification.  A hash is the  *)
(* term of what was hashed, so two hashes are equal exactly when the same  *)
(* bytes were hashed under the same finalization.                          *)
(***************************************************************************)
EXTENDS Integers, Sequences, FiniteSets, TLC

\* ---------------------------------------------------------------- bounds
\* Width of the machine word that stands for u64 (u128 is twice as wide).
WORD_BITS == 8
\* Scaled-down sizes of the hash module's constants.
CHUNK_SIZE == 13
HASH_SIZE == 1
\* Largest content length of the encoder and writer specifications.
MaxLen == 92
\* Largest content length handed to the Writer.
MaxWriterLen == 53

\* ------------------------------------------------------------- constants
HEADER_SIZE == 8
PARENT_SIZE == 2 * HASH_SIZE

RECURSIVE Pow2(_)
Pow2(n) == IF n = 0 THEN 1 ELSE 2 * Pow2(n - 1)

U64 == Pow2(WORD_BITS)
U128 == Pow2(2 * WORD_BITS)

Min(a, b) == IF a < b THEN a ELSE b
Max(a, b) == IF a > b THEN a ELSE b

\* ------------------------------------------------- integer bit primitives
RECURSIVE trailing_zeros_from(_, _)
trailing_zeros_from(x, bits) ==
    IF bits = 0 THEN 0
    ELSE IF x % 2 = 1 THEN 0
    ELSE 1 + trailing_zeros_from(x \div 2, bits - 1)

\* u64::trailing_zeros: the word width for x = 0.
trailing_zeros(x) == trailing_zeros_from(x, WORD_BITS)

RECURSIVE bit_length(_)
bit_length(x) == IF x = 0 THEN 0 ELSE 1 + bit_length(x \div 2)

\* u64::leading_zeros
leading_zeros(x) == WORD_BITS - bit_length(x)

RECURSIVE count_ones(_)
count_ones(x) == IF x = 0 THEN 0 ELSE (x % 2) + count_ones(x \div 2)

\* the ! operator on u64
BitNot(x) == (U64 - 1) - x

\* ---------------------------------------------------------- size functions
count_chunks_naive(content_len) ==
    Max(1, ((content_len + CHUNK_SIZE - 1) % U64) \div CHUNK_SIZE)

count_chunks(content_len) ==
    LET full_chunks == content_len \div CHUNK_SIZE
        has_partial_chunk == IF content_len % CHUNK_SIZE # 0 THEN 1 ELSE 0
    IN  Max(1, (full_chunks + has_partial_chunk) % U64)

encoded_subtree_size(content_len) ==
    LET num_parents == (count_chunks(content_len) - 1) % U64
    IN  (content_len + ((num_parents * PARENT_SIZE) % U128)) % U128

encoded_size(content_len) ==
    (encoded_subtree_size(content_len) + HEADER_SIZE) % U128

chunk_size(chunk, content_len) ==
    LET chunk_start == (chunk * CHUNK_SIZE) % U64
    IN  Min(CHUNK_SIZE, (content_len - chunk_start) % U64)

\* ------------------------------------------------- parent-count arithmetic
post_order_parent_nodes_nonfinal(chunk) == trailing_zeros(BitNot(chunk))

post_order_parent_nodes_final_trailing(chunk) == trailing_zeros(BitNot(chunk))

post_order_parent_nodes_final(chunk) == count_ones(chunk)

pre_order_parent_nodes_whole(chunk, content_len) ==
    LET total_chunks == count_chunks(content_len)
        remaining == (total_chunks - chunk) % U64
        starting_bound == WORD_BITS - leading_zeros(remaining)
        interior_bound == trailing_zeros(chunk)
    IN  Min(starting_bound, interior_bound)

pre_order_parent_nodes(chunk, content_len) ==
    LET total_chunks == count_chunks(content_len)
        remaining == (total_chunks - chunk) % U64
        starting_bound == WORD_BITS - leading_zeros((remaining - 1) % U64)
        interior_bound == trailing_zeros(chunk)
    IN  Min(starting_bound, interior_bound)

\* test_parent_nodes, lines 439-443: the post-order count of a chunk.
post_order_parent_nodes(chunk, total_chunks) ==
    IF chunk < total_chunks - 1
    THEN post_order_parent_nodes_nonfinal(chunk)
    ELSE post_order_parent_nodes_final(chunk)

\* ------------------------------------------------------- reference walker
\* hash::largest_power_of_two(n): the largest power of two <= n, n >= 1.
largest_power_of_two(n) == Pow2(bit_length(n) - 1)

\* test::make_pre_post_list, read off per chunk: the number of non-leaf
\* subtrees (start, size) visited by recurse whose left-most chunk is c ...
RECURSIVE recurse_pre(_, _, _)
recurse_pre(start, size, c) ==
    IF size = 1 THEN 0
    ELSE LET split == largest_power_of_two(size - 1)
         IN  (IF start = c THEN 1 ELSE 0)
             + recurse_pre(start, split, c)
             + recurse_pre(start + split, size - split, c)

\* ... and whose right-most chunk is c.
RECURSIVE recurse_post(_, _, _)
recurse_post(start, size, c) ==
    IF size = 1 THEN 0
    ELSE LET split == largest_power_of_two(size - 1)
         IN  (IF start + size - 1 = c THEN 1 ELSE 0)
             + recurse_post(start, split, c)
             + recurse_post(start + split, size - split, c)

\* ------------------------------------------------------- bytes and hashes
\* A byte of a buffer is either a plain byte value (h = NoHash) or the v-th
\* byte of the hash term h.
NotRoot == -1
Root(content_len) == content_len
NoHash == [data |-> <<>>, fin |-> -2]

DataByte(x) == [v |-> x, h |-> NoHash]

\* hash::hash_node / hash::finalize_hash: HASH_SIZE bytes that determine the
\* hashed bytes and the finalization.
hash_node(bytes, finalization) ==
    [k \in 1..HASH_SIZE |-> [v |-> k - 1, h |-> [data |-> bytes, fin |-> finalization]]]

RECURSIVE le_bytes(_, _)
le_bytes(len, n) ==
    IF n = 0 THEN <<>> ELSE <<DataByte(len % 256)>> \o le_bytes(len \div 256, n - 1)

\* hash::encode_len: little-endian u64.
encode_len(len) == le_bytes(len, HEADER_SIZE)

\* hash::decode_len: the little-endian value of the bytes, as a u64.
RECURSIVE decode_len(_)
decode_len(bytes) ==
    IF bytes = <<>> THEN 0
    ELSE (bytes[1].v + 256 * decode_len(Tail(bytes))) % U64

\* A Rust range [from, to) of a slice, and a copy_from_slice into it.
Slice(buf, from, to) == SubSeq(buf, from + 1, to)

CopyInto(buf, from, bytes) ==
    [i \in 1..Len(buf) |->
        IF i > from /\ i <= from + Len(bytes) THEN bytes[i - from] ELSE buf[i]]

\* --------------------------------------------------- hash::State (stack B)
\* Each entry is the hash of a subtree together with its implied chunk count.
StateNew == [subtrees |-> <<>>]

push_subtree(st, hash) ==
    [subtrees |-> Append(st.subtrees, [hash |-> hash, size |-> 1])]

needs_merge(st) ==
    LET n == Len(st.subtrees)
    IN  n >= 2 /\ st.subtrees[n].size = st.subtrees[n - 1].size

\* Pops the top two entries, pushes their parent hashed under finalization,
\* and yields the payload left_hash || right_hash.
merge_inner(st, finalization) ==
    LET n == Len(st.subtrees)
        right_child == st.subtrees[n]
        left_child == st.subtrees[n - 1]
        parent_node == left_child.hash \o right_child.hash
        parent_hash == hash_node(parent_node, finalization)
    IN  [state |-> [subtrees |-> Append(SubSeq(st.subtrees, 1, n - 2),
                       [hash |-> parent_hash,
                        size |-> left_child.size + right_child.size])],
         parent |-> parent_node]

\* merge_parent: some = FALSE stands for None.
merge_parent(st) ==
    IF needs_merge(st)
    THEN LET m == merge_inner(st, NotRoot)
         IN  [some |-> TRUE, parent |-> m.parent, state |-> m.state]
    ELSE [some |-> FALSE, parent |-> <<>>, state |-> st]

\* merge_finish: is_root = FALSE stands for None.
merge_finish(st, finalization) ==
    LET last == Len(st.subtrees) = 2
        m == merge_inner(st, IF last THEN finalization ELSE NotRoot)
    IN  [parent |-> m.parent, is_root |-> last,
         root |-> m.state.subtrees[Len(m.state.subtrees)].hash,
         state |-> m.state]

DrainMergeParent_Once(st, out) ==
    LET m == merge_parent(st)
    IN  IF m.some THEN [state |-> m.state, out |-> out \o m.parent]
        ELSE [state |-> st, out |-> out]

\* "while let Some(parent) = state.merge_parent() { out.extend(parent) }"
RECURSIVE DrainMergeParent(_, _)
DrainMergeParent(st, out) ==
    LET m == merge_parent(st)
    IN  IF m.some THEN DrainMergeParent(m.state, out \o m.parent)
        ELSE [state |-> st, out |-> out]

\* "loop { merge_finish; out.extend(parent); if Some(root) break }"
RECURSIVE DrainMergeFinish(_, _, _)
DrainMergeFinish(st, finalization, out) ==
    LET m == merge_finish(st, finalization)
    IN  IF m.is_root
        THEN [state |-> m.state, out |-> out \o m.parent, root |-> m.root]
        ELSE DrainMergeFinish(m.state, finalization, out \o m.parent)

\* ------------------------------------------------------ encode_post_order
ChunkHash_AsRoot(chunk, finalization) == hash_node(chunk, finalization)

\* Line 62: every chunk of a longer input is hashed NotRoot.
ChunkHash(chunk, finalization) == hash_node(chunk, NotRoot)

\* One iteration of the chunk loop (lines 60-82) over the remaining input.
PostOrderIter(remaining, ret, st, finalization, encoded_len) ==
    LET current_chunk_size == Min(CHUNK_SIZE, Len(remaining))
        chunk == SubSeq(remaining, 1, current_chunk_size)
        ret1 == ret \o chunk
        st1 == push_subtree(st, ChunkHash(chunk, finalization))
        rest1 == SubSeq(remaining, current_chunk_size + 1, Len(remaining))
    IN  IF rest1 # <<>>
        THEN LET d == DrainMergeParent(st1, ret1)
             IN  [rest |-> rest1, ret |-> d.out, state |-> d.state,
                  returned |-> FALSE, root |-> <<>>]
        ELSE LET d == DrainMergeFinish(st1, finalization, ret1)
             IN  [rest |-> rest1, ret |-> d.out \o encoded_len, state |-> d.state,
                  returned |-> TRUE, root |-> d.root]

RECURSIVE PostOrderLoop(_, _, _, _, _)
PostOrderLoop(remaining, ret, st, finalization, encoded_len) ==
    LET it == PostOrderIter(remaining, ret, st, finalization, encoded_len)
    IN  IF it.returned THEN [ret |-> it.ret, hash |-> it.root]
        ELSE PostOrderLoop(it.rest, it.ret, it.state, finalization, encoded_len)

\* The limit under which the input is assembled directly (line 50).
ShortInputLimit == CHUNK_SIZE

encode_post_order(in) ==
    LET encoded_len == encode_len(Len(in) % U64)
        finalization == Root(Len(in) % U64)
    IN  IF Len(in) <= ShortInputLimit
        THEN [ret |-> in \o encoded_len, hash |-> hash_node(in, finalization)]
        ELSE PostOrderLoop(in, <<>>, StateNew, finalization, encoded_len)

\* ------------------------------------------------------------ FlipperState
\* Capacity of the ArrayVec stacks: the base-2 logarithm, rounded up, of the
\* chunk count of the longest content a u64 length can describe.
MAX_DEPTH == bit_length((count_chunks(U64 - 1) - 1) % U64)

FlipperNew(content_len) ==
    LET total_chunks == count_chunks(content_len)
    IN  [parents |-> <<>>,
         content_len |-> content_len,
         chunk_moved |-> total_chunks,
         parents_needed |-> post_order_parent_nodes_final((total_chunks - 1) % U64),
         parents_available |-> 0]

FlipperNext_FeedFirst(f) ==
    IF f.parents_needed > 0 THEN [kind |-> "FeedParent", size |-> 0]
    ELSE IF f.parents_available > 0 THEN [kind |-> "TakeParent", size |-> 0]
    ELSE IF f.chunk_moved > 0
         THEN [kind |-> "Chunk",
               size |-> chunk_size((f.chunk_moved - 1) % U64, f.content_len)]
    ELSE [kind |-> "Done", size |-> 0]

\* FlipperState::next
FlipperNext(f) ==
    IF f.parents_available > 0 THEN [kind |-> "TakeParent", size |-> 0]
    ELSE IF f.parents_needed > 0 THEN [kind |-> "FeedParent", size |-> 0]
    ELSE IF f.chunk_moved > 0
         THEN [kind |-> "Chunk",
               size |-> chunk_size((f.chunk_moved - 1) % U64, f.content_len)]
    ELSE [kind |-> "Done", size |-> 0]

chunk_moved(f) ==
    LET moved == (f.chunk_moved - 1) % U64
    IN  [f EXCEPT !.chunk_moved = moved,
                  !.parents_available = pre_order_parent_nodes(moved, f.content_len),
                  !.parents_needed =
                      IF moved > 0
                      THEN post_order_parent_nodes_nonfinal((moved - 1) % U64)
                      ELSE f.parents_needed]

\* The debug assertions of chunk_moved (lines 208-210), feed_parent (lines
\* 219-221) and take_parent (line 227).
ChunkMovedAsserts(f) ==
    /\ f.chunk_moved > 0
    /\ f.parents_available = 0
    /\ f.parents_needed = 0

FeedParentAsserts(f) ==
    /\ f.chunk_moved > 0
    /\ f.parents_available = 0
    /\ f.parents_needed > 0

TakeParentAsserts(f) == f.parents_available > 0

\* panics when the ArrayVec is full
feed_parent(f, parent) ==
    [flipper |-> [f EXCEPT !.parents_needed = (f.parents_needed - 1) % 256,
                           !.parents = Append(f.parents, parent)],
     panic |-> Len(f.parents) >= MAX_DEPTH]

\* panics ("took too many parents") when the stack is empty
take_parent(f) ==
    LET n == Len(f.parents)
    IN  [flipper |-> [f EXCEPT !.parents_available = (f.parents_available - 1) % 256,
                               !.parents = SubSeq(f.parents, 1, n - 1)],
         parent |-> IF n > 0 THEN f.parents[n] ELSE <<>>,
         panic |-> n = 0]

\* ----------------------------------------------------------- flip_in_place
\* The locals of flip_in_place: e = [encoded, flipper, read_cursor,
\* write_cursor, header, pc], pc in {"flip", "done", "panic"}.
\* Line 91: the write cursor starts at the end of the buffer.
InitialWriteCursor(len) == len

FlipBegin(encoded) ==
    IF Len(encoded) < HEADER_SIZE
    THEN [encoded |-> encoded, flipper |-> FlipperNew(0), read_cursor |-> 0,
          write_cursor |-> 0, header |-> <<>>, pc |-> "panic"]
    ELSE LET header == Slice(encoded, Len(encoded) - HEADER_SIZE, Len(encoded))
             content_len == decode_len(header)
         IN  [encoded |-> encoded,
              flipper |-> FlipperNew(content_len),
              read_cursor |-> Len(encoded) - HEADER_SIZE,
              write_cursor |-> InitialWriteCursor(Len(encoded)),
              header |-> header,
              pc |-> "flip"]

Panicked(e) == [e EXCEPT !.pc = "panic"]

FlipFeedParent(e) ==
    IF e.read_cursor < PARENT_SIZE THEN Panicked(e)
    ELSE LET parent == Slice(e.encoded, e.read_cursor - PARENT_SIZE, e.read_cursor)
             fed == feed_parent(e.flipper, parent)
         IN  IF fed.panic THEN Panicked(e)
             ELSE [e EXCEPT !.read_cursor = e.read_cursor - PARENT_SIZE,
                            !.flipper = fed.flipper]

FlipTakeParent(e) ==
    LET taken == take_parent(e.flipper)
    IN  IF taken.panic \/ e.write_cursor < PARENT_SIZE
           \/ e.write_cursor > Len(e.encoded)
        THEN Panicked(e)
        ELSE [e EXCEPT !.flipper = taken.flipper,
                       !.encoded = CopyInto(e.encoded, e.write_cursor - PARENT_SIZE,
                                            taken.parent),
                       !.write_cursor = e.write_cursor - PARENT_SIZE]

FlipChunk_NoReadAdvance(e, size) ==
    IF e.read_cursor < size \/ e.write_cursor < size
       \/ e.write_cursor > Len(e.encoded)
    THEN Panicked(e)
    ELSE LET chunk == Slice(e.encoded, e.read_cursor - size, e.read_cursor)
         IN  [e EXCEPT !.encoded = CopyInto(e.encoded, e.write_cursor - size, chunk),
                       !.write_cursor = e.write_cursor - size,
                       !.flipper = chunk_moved(e.flipper)]

FlipChunk(e, size) ==
    IF e.read_cursor < size \/ e.write_cursor < size
       \/ e.write_cursor > Len(e.encoded)
    THEN Panicked(e)
    ELSE LET chunk == Slice(e.encoded, e.read_cursor - size, e.read_cursor)
         IN  [e EXCEPT !.read_cursor = e.read_cursor - size,
                       !.encoded = CopyInto(e.encoded, e.write_cursor - size, chunk),
                       !.write_cursor = e.write_cursor - size,
                       !.flipper = chunk_moved(e.flipper)]

FlipDone_NoHeader(e) == [e EXCEPT !.pc = "done"]

FlipDone(e) ==
    [e EXCEPT !.encoded = CopyInto(e.encoded, 0, e.header), !.pc = "done"]

\* One turn of the loop of flip_in_place.
FlipIter(e) ==
    LET next == FlipperNext(e.flipper)
    IN  CASE next.kind = "FeedParent" -> FlipFeedParent(e)
          [] next.kind = "TakeParent" -> FlipTakeParent(e)
          [] next.kind = "Chunk" -> FlipChunk(e, next.size)
          [] next.kind = "Done" -> FlipDone(e)

\* The loop runs at most once per byte moved plus once per parent and Done.
RECURSIVE FlipLoop(_)
FlipLoop(e) == IF e.pc = "flip" THEN FlipLoop(FlipIter(e)) ELSE e

flip_in_place(encoded) == FlipLoop(FlipBegin(encoded))

\* encode: (hash, output); panicked when the flip panics.
encode(in) ==
    LET post == encode_post_order(in)
        flipped == flip_in_place(post.ret)
    IN  [hash |-> post.hash, output |-> flipped.encoded,
         panicked |-> flipped.pc = "panic"]

\* ------------------------------------------------- the Writer's inner sink
\* A seekable read/write sink over a growable byte vector (io::Cursor).
SinkNew == [data |-> <<>>, pos |-> 0]

\* write_all at the current position: overwrites, extends, advances.
SinkWriteAll(sink, bytes) ==
    LET end == sink.pos + Len(bytes)
        len == Max(Len(sink.data), IF bytes = <<>> THEN 0 ELSE end)
    IN  [data |-> [i \in 1..len |->
                     IF i > sink.pos /\ i <= end THEN bytes[i - sink.pos]
                     ELSE IF i <= Len(sink.data) THEN sink.data[i]
                     ELSE DataByte(0)],
         pos |-> end]

\* seek(Start(offset))
SinkSeek(sink, offset) == [sink EXCEPT !.pos = offset]

\* read_exact of n bytes: fails when fewer than n bytes follow the position.
SinkReadExact(sink, n) ==
    IF sink.pos + n > Len(sink.data)
    THEN [ok |-> FALSE, bytes |-> <<>>, sink |-> sink]
    ELSE [ok |-> TRUE, bytes |-> Slice(sink.data, sink.pos, sink.pos + n),
          sink |-> [sink EXCEPT !.pos = sink.pos + n]]

\* -------------------------------------------------------------- Writer
\* The fields of a Writer: w = [inner, chunk_len, total_len, chunk_state,
\* tree_state]; chunk_state is the sequence of bytes the chunk hasher has
\* absorbed, and finalize_hash hashes that sequence.
WriterNew ==
    [inner |-> SinkNew, chunk_len |-> 0, total_len |-> 0,
     chunk_state |-> <<>>, tree_state |-> StateNew]

finalize_hash(chunk_state, finalization) == hash_node(chunk_state, finalization)

WriteRollChunk_NoReset(w) ==
    IF w.chunk_len = CHUNK_SIZE
    THEN LET chunk_hash == finalize_hash(w.chunk_state, NotRoot)
             d == DrainMergeParent(push_subtree(w.tree_state, chunk_hash), <<>>)
         IN  [w EXCEPT !.chunk_len = 0,
                       !.tree_state = d.state,
                       !.inner = SinkWriteAll(w.inner, d.out)]
    ELSE w

\* Writer::write, lines 336-344: a full chunk is finalized before more bytes
\* are taken.
WriteRollChunk(w) ==
    IF w.chunk_len = CHUNK_SIZE
    THEN LET chunk_hash == finalize_hash(w.chunk_state, NotRoot)
             d == DrainMergeParent(push_subtree(w.tree_state, chunk_hash), <<>>)
         IN  [w EXCEPT !.chunk_state = <<>>,
                       !.chunk_len = 0,
                       !.tree_state = d.state,
                       !.inner = SinkWriteAll(w.inner, d.out)]
    ELSE w

\* Line 345-346: the number of bytes offered to the sink.
WriteTake(w, buf) == Min(CHUNK_SIZE - w.chunk_len, Len(buf))

WriteAbsorb_Offered(w, buf, take, written) ==
    [w EXCEPT !.inner = SinkWriteAll(w.inner, SubSeq(buf, 1, written)),
              !.chunk_state = w.chunk_state \o SubSeq(buf, 1, take),
              !.chunk_len = w.chunk_len + take,
              !.total_len = (w.total_len + take) % U64]

\* Lines 347-350: the sink took `written` of the `take` bytes offered.
WriteAbsorb(w, buf, take, written) ==
    [w EXCEPT !.inner = SinkWriteAll(w.inner, SubSeq(buf, 1, written)),
              !.chunk_state = w.chunk_state \o SubSeq(buf, 1, written),
              !.chunk_len = w.chunk_len + written,
              !.total_len = (w.total_len + written) % U64]

\* Writer::write on a non-empty buf of which the sink accepts `accept`
\* bytes (accept <= take).
WriterWrite(w, buf, accept) ==
    LET w1 == WriteRollChunk(w)
        take == WriteTake(w1, buf)
    IN  [writer |-> WriteAbsorb(w1, buf, take, accept), ret |-> accept]

\* The limit under which finish hashes the single chunk as the root (line 274).
FinishShortLimit == CHUNK_SIZE

\* Writer::finish, lines 273-288: the post-order stream is completed and the
\* length trailer appended.
FinishPostOrder(w) ==
    IF w.total_len <= FinishShortLimit
    THEN [writer |-> [w EXCEPT !.inner =
                         SinkWriteAll(w.inner, encode_len(w.total_len))],
          root_hash |-> finalize_hash(w.chunk_state, Root(w.total_len))]
    ELSE LET chunk_hash == finalize_hash(w.chunk_state, NotRoot)
             d == DrainMergeFinish(push_subtree(w.tree_state, chunk_hash),
                                   Root(w.total_len), <<>>)
         IN  [writer |-> [w EXCEPT !.tree_state = d.state,
                                   !.inner = SinkWriteAll(
                                       SinkWriteAll(w.inner, d.out),
                                       encode_len(w.total_len))],
              root_hash |-> d.root]

\* The locals of the flip in finish: x = [inner, flipper, read_cursor,
\* write_cursor, pc], pc in {"w_flip", "w_done", "w_error", "w_panic"}.
\* Lines 291-293.
FinishFlipBegin(w) ==
    LET write_cursor0 == w.inner.pos
    IN  [inner |-> w.inner,
         flipper |-> FlipperNew(w.total_len),
         write_cursor |-> write_cursor0,
         read_cursor |-> (write_cursor0 - HEADER_SIZE) % U64,
         pc |-> IF write_cursor0 < HEADER_SIZE THEN "w_panic" ELSE "w_flip"]

Stopped(x, how) == [x EXCEPT !.pc = how]

\* Lines 296-302
FinishFeedParent(x) ==
    IF x.read_cursor < PARENT_SIZE THEN Stopped(x, "w_panic")
    ELSE LET r == SinkReadExact(SinkSeek(x.inner, x.read_cursor - PARENT_SIZE),
                                PARENT_SIZE)
             fed == feed_parent(x.flipper, r.bytes)
         IN  IF ~r.ok THEN Stopped(x, "w_error")
             ELSE IF fed.panic THEN Stopped(x, "w_panic")
             ELSE [x EXCEPT !.inner = r.sink,
                            !.read_cursor = x.read_cursor - PARENT_SIZE,
                            !.flipper = fed.flipper]

\* Lines 303-308
FinishTakeParent(x) ==
    LET taken == take_parent(x.flipper)
    IN  IF taken.panic \/ x.write_cursor < PARENT_SIZE THEN Stopped(x, "w_panic")
        ELSE [x EXCEPT !.flipper = taken.flipper,
                       !.inner = SinkWriteAll(
                           SinkSeek(x.inner, x.write_cursor - PARENT_SIZE),
                           taken.parent),
                       !.write_cursor = x.write_cursor - PARENT_SIZE]

\* Lines 309-318
FinishChunk(x, size) ==
    IF x.read_cursor < size \/ x.write_cursor < size THEN Stopped(x, "w_panic")
    ELSE LET r == SinkReadExact(SinkSeek(x.inner, x.read_cursor - size), size)
         IN  IF ~r.ok THEN Stopped(x, "w_error")
             ELSE [x EXCEPT !.inner = SinkWriteAll(
                                SinkSeek(r.sink, x.write_cursor - size), r.bytes),
                            !.read_cursor = x.read_cursor - size,
                            !.write_cursor = x.write_cursor - size,
                            !.flipper = chunk_moved(x.flipper)]

\* Lines 319-324
FinishDone(x, total_len) ==
    [x EXCEPT !.inner = SinkWriteAll(SinkSeek(x.inner, 0), encode_len(total_len)),
              !.pc = "w_done"]

PropagateError_Wrapped(e) == "Other"

\* The ? operator of finish: the sink's io::Error is returned as it is.
PropagateError(e) == e

\* ---------------------------------------- finish when a sink operation fails
\* The sink as the k-th operation of a step finds it when it fails, the
\* earlier operations of the step having succeeded; a failed operation
\* leaves the sink as it was.

\* merge_finish called k times, the payloads of all but the last call having
\* been written (lines 279-286).
RECURSIVE MergeFinishUntilFailure(_, _, _, _)
MergeFinishUntilFailure(st, finalization, sink, k) ==
    LET m == merge_finish(st, finalization)
    IN  IF k = 1 THEN [tree_state |-> m.state, inner |-> sink]
        ELSE MergeFinishUntilFailure(m.state, finalization,
                                     SinkWriteAll(sink, m.parent), k - 1)

\* The number of write_all calls of lines 273-288.
FinishPostOrderWrites(w) ==
    IF w.total_len <= FinishShortLimit THEN 1 ELSE Len(w.tree_state.subtrees) + 1

\* Lines 273-288 when the k-th write_all fails.
FinishPostOrderFails(w, k) ==
    IF k = FinishPostOrderWrites(w)
    THEN LET done == FinishPostOrder(w).writer
         IN  [done EXCEPT !.inner = SinkSeek(done.inner,
                                             done.inner.pos - HEADER_SIZE),
                          !.inner.data = SubSeq(done.inner.data, 1,
                                                Len(done.inner.data) - HEADER_SIZE)]
    ELSE LET chunk_hash == finalize_hash(w.chunk_state, NotRoot)
             r == MergeFinishUntilFailure(push_subtree(w.tree_state, chunk_hash),
                                          Root(w.total_len), w.inner, k)
         IN  [w EXCEPT !.tree_state = r.tree_state, !.inner = r.inner]

\* The number of sink operations of each arm of the flip in finish.
FeedParentOps == 2
TakeParentOps == 2
ChunkOps == 4
DoneOps == 2

\* Lines 298-299 when the k-th of seek, read_exact fails.
FinishFeedParentFails(x, k) ==
    [x EXCEPT !.inner = IF k = 1 THEN x.inner
                        ELSE SinkSeek(x.inner, x.read_cursor - PARENT_SIZE),
              !.pc = "w_error"]

\* Lines 304-306 when the k-th of seek, write_all fails.
FinishTakeParentFails(x, k) ==
    [x EXCEPT !.flipper = take_parent(x.flipper).flipper,
              !.inner = IF k = 1 THEN x.inner
                        ELSE SinkSeek(x.inner, x.write_cursor - PARENT_SIZE),
              !.pc = "w_error"]

\* Lines 311-315 when the k-th of seek, read_exact, seek, write_all fails.
FinishChunkFails(x, size, k) ==
    LET sought == SinkSeek(x.inner, x.read_cursor - size)
        read == SinkReadExact(sought, size).sink
    IN  [x EXCEPT !.inner = CASE k = 1 -> x.inner
                              [] k = 2 -> sought
                              [] k = 3 -> read
                              [] OTHER -> SinkSeek(read, x.write_cursor - size),
                  !.read_cursor = IF k <= 2 THEN x.read_cursor
                                  ELSE x.read_cursor - size,
                  !.pc = "w_error"]

\* Lines 321-322 when the k-th of seek, write_all fails.
FinishDoneFails(x, k) ==
    [x EXCEPT !.inner = IF k = 1 THEN x.inner ELSE SinkSeek(x.inner, 0),
              !.pc = "w_error"]

\* ================================================================== state
VARIABLES
    pc,             \* position of the running call
    input,          \* the bytes handed to encode / to the Writer's caller
    rest,           \* encode_post_order: the part of input not yet consumed
    output,         \* the Vec of encode_post_order, flipped in place
    state,          \* encode_post_order: hash::State
    root_hash,      \* the hash returned
    header,         \* flip_in_place: the saved length trailer
    flipper,        \* FlipperState
    read_cursor,
    write_cursor,
    fn_len,         \* the content length a size or count function is called on
    fn_chunk,       \* the chunk index it is called on
    fn_out,         \* the function called and the value it returned
    inner,          \* Writer: the sink
    chunk_len,      \* Writer
    total_len,      \* Writer
    chunk_state,    \* Writer: the bytes absorbed by the chunk hasher
    tree_state,     \* Writer: hash::State
    source,         \* the caller: the fill pattern of the bytes it writes
    written,        \* the caller: the value the last write returned
    short_seen,     \* the sink has accepted fewer bytes than it was offered
    finish_ret,     \* the caller: what finish returned
    sink_err,       \* the sink: the error its failed operation reported
    feeds,          \* the flipper's driver: feed_parent calls made
    takes           \* the flipper's driver: take_parent calls made

encVars == <<rest, output, state, header>>
flipVars == <<flipper, read_cursor, write_cursor>>
fnVars == <<fn_len, fn_chunk, fn_out>>
writerVars == <<inner, chunk_len, total_len, chunk_state, tree_state>>
callerVars == <<source, written, short_seen>>
resultVars == <<finish_ret, sink_err>>
eventVars == <<feeds, takes>>

vars == <<pc, input, root_hash, encVars, flipVars, fnVars, writerVars, callerVars,
          resultVars, eventVars>>

\* io::Result<Hash> as finish returns it; Pending before it has returned.
Pending == [kind |-> "Pending", err |-> "none", hash |-> <<>>]
Ok(hash) == [kind |-> "Ok", err |-> "none", hash |-> hash]
Err(e) == [kind |-> "Err", err |-> e, hash |-> <<>>]

\* The Writer's fields as one value, and their assignment.
WriterFields ==
    [inner |-> inner, chunk_len |-> chunk_len, total_len |-> total_len,
     chunk_state |-> chunk_state, tree_state |-> tree_state]

SetWriterFields(w) ==
    /\ inner' = w.inner
    /\ chunk_len' = w.chunk_len
    /\ total_len' = w.total_len
    /\ chunk_state' = w.chunk_state
    /\ tree_state' = w.tree_state

WriterUnused ==
    /\ inner = WriterNew.inner
    /\ chunk_len = WriterNew.chunk_len
    /\ total_len = WriterNew.total_len
    /\ chunk_state = WriterNew.chunk_state
    /\ tree_state = WriterNew.tree_state
    /\ source = "zeros"
    /\ written = 0
    /\ short_seen = FALSE
    /\ finish_ret = Pending
    /\ sink_err = "none"

\* ----------------------------------------------------------------- inputs
Patterns == {"zeros", "nines", "index"}

InputOf(len, pattern) ==
    [i \in 1..len |->
        DataByte(CASE pattern = "zeros" -> 0
                   [] pattern = "nines" -> 9
                   [] pattern = "index" -> i % 256)]

Inputs == {InputOf(len, p) : len \in 0..MaxLen, p \in Patterns}

\* ------------------------------------------------- encode, step by step
Init ==
    /\ pc = "encode"
    /\ input \in Inputs
    /\ rest = <<>>
    /\ output = <<>>
    /\ state = StateNew
    /\ root_hash = <<>>
    /\ header = <<>>
    /\ flipper = FlipperNew(0)
    /\ read_cursor = 0
    /\ write_cursor = 0
    /\ fn_len = 0
    /\ fn_chunk = 0
    /\ fn_out = [fn |-> "none", value |-> 0]
    /\ WriterUnused
    /\ feeds = 0
    /\ takes = 0

\* encode_post_order, lines 44-54: the short input is assembled directly.
EncodeShort ==
    /\ pc = "encode"
    /\ Len(input) <= ShortInputLimit
    /\ output' = input \o encode_len(Len(input) % U64)
    /\ root_hash' = hash_node(input, Root(Len(input) % U64))
    /\ pc' = "post_done"
    /\ UNCHANGED <<input, rest, state, header, flipVars, fnVars, writerVars, callerVars,
                   resultVars, eventVars>>

\* encode_post_order, line 56: a longer input enters the chunk loop.
EncodeLong ==
    /\ pc = "encode"
    /\ ~(Len(input) <= ShortInputLimit)
    /\ state' = StateNew
    /\ rest' = input
    /\ pc' = "post_loop"
    /\ UNCHANGED <<input, output, root_hash, header, flipVars, fnVars, writerVars, callerVars,
                   resultVars, eventVars>>

\* encode_post_order, lines 57-83: one chunk and the parents after it.
EncodeChunk ==
    /\ pc = "post_loop"
    /\ LET it == PostOrderIter(rest, output, state, Root(Len(input) % U64),
                               encode_len(Len(input) % U64))
       IN  /\ rest' = it.rest
           /\ output' = it.ret
           /\ state' = it.state
           /\ root_hash' = it.root
           /\ pc' = IF it.returned THEN "post_done" ELSE "post_loop"
    /\ UNCHANGED <<input, header, flipVars, fnVars, writerVars, callerVars,
                   resultVars, eventVars>>

FlipLocals ==
    [encoded |-> output, flipper |-> flipper, read_cursor |-> read_cursor,
     write_cursor |-> write_cursor, header |-> header, pc |-> pc]

SetFlipLocals(e) ==
    /\ output' = e.encoded
    /\ flipper' = e.flipper
    /\ read_cursor' = e.read_cursor
    /\ write_cursor' = e.write_cursor
    /\ header' = e.header
    /\ pc' = e.pc
    /\ UNCHANGED <<input, rest, state, root_hash, fnVars, writerVars, callerVars,
                   resultVars, eventVars>>

\* flip_in_place, lines 87-91
FlipStart ==
    /\ pc = "post_done"
    /\ SetFlipLocals(FlipBegin(output))

FeedParent ==
    /\ pc = "flip"
    /\ FlipperNext(flipper).kind = "FeedParent"
    /\ SetFlipLocals(FlipFeedParent(FlipLocals))

TakeParent ==
    /\ pc = "flip"
    /\ FlipperNext(flipper).kind = "TakeParent"
    /\ SetFlipLocals(FlipTakeParent(FlipLocals))

Chunk ==
    /\ pc = "flip"
    /\ FlipperNext(flipper).kind = "Chunk"
    /\ SetFlipLocals(FlipChunk(FlipLocals, FlipperNext(flipper).size))

Done ==
    /\ pc = "flip"
    /\ FlipperNext(flipper).kind = "Done"
    /\ SetFlipLocals(FlipDone(FlipLocals))

Next ==
    \/ EncodeShort
    \/ EncodeLong
    \/ EncodeChunk
    \/ FlipStart
    \/ FeedParent
    \/ TakeParent
    \/ Chunk
    \/ Done

Spec == Init /\ [][Next]_vars

\* The loops of encode are sequential code: a step that is enabled is taken.
FairSpec == Spec /\ WF_vars(Next)

\* ------------------------------------------------- the Writer and a caller
\* The caller writes bytes of one fill pattern; input is the sequence of
\* bytes that write has accepted so far.
WriterInit ==
    /\ pc = "writer"
    /\ input = <<>>
    /\ source \in Patterns
    /\ written = 0
    /\ short_seen = FALSE
    /\ finish_ret = Pending
    /\ sink_err = "none"
    /\ feeds = 0
    /\ takes = 0
    /\ inner = WriterNew.inner
    /\ chunk_len = WriterNew.chunk_len
    /\ total_len = WriterNew.total_len
    /\ chunk_state = WriterNew.chunk_state
    /\ tree_state = WriterNew.tree_state
    /\ root_hash = <<>>
    /\ rest = <<>>
    /\ output = <<>>
    /\ state = StateNew
    /\ header = <<>>
    /\ flipper = FlipperNew(0)
    /\ read_cursor = 0
    /\ write_cursor = 0
    /\ fn_len = 0
    /\ fn_chunk = 0
    /\ fn_out = [fn |-> "none", value |-> 0]

\* The n bytes that follow the accepted ones in the caller's data.
NextBytes(n) ==
    SubSeq(InputOf(Len(input) + n, source), Len(input) + 1, Len(input) + n)

\* write(buf) with buf the next n bytes the caller has not yet had accepted;
\* the sink accepts any part of what it is offered.
WriteCall(n, least) ==
    LET buf == NextBytes(n)
        take == WriteTake(WriteRollChunk(WriterFields), buf)
    IN  \E accept \in Min(least, take)..take :
          LET r == WriterWrite(WriterFields, buf, accept)
          IN  /\ SetWriterFields(r.writer)
              /\ written' = r.ret
              /\ input' = input \o SubSeq(buf, 1, r.ret)
              /\ short_seen' = (short_seen \/ accept < take)

Write ==
    /\ pc = "writer"
    /\ \E n \in 1..(MaxWriterLen - Len(input)) : WriteCall(n, 0)
    /\ UNCHANGED <<pc, source, root_hash, encVars, flipVars, fnVars, resultVars, eventVars>>

\* write(&[]), lines 332-335
WriteEmpty ==
    /\ pc = "writer"
    /\ written' = 0
    /\ UNCHANGED <<pc, input, root_hash, encVars, flipVars, fnVars, writerVars,
                   source, short_seen, resultVars, eventVars>>

\* finish, lines 273-288
FinishStart ==
    /\ pc = "writer"
    /\ LET r == FinishPostOrder(WriterFields)
       IN  /\ SetWriterFields(r.writer)
           /\ root_hash' = r.root_hash
    /\ pc' = "w_post_done"
    /\ UNCHANGED <<input, encVars, flipVars, fnVars, callerVars, resultVars, eventVars>>

FinishLocals ==
    [inner |-> inner, flipper |-> flipper, read_cursor |-> read_cursor,
     write_cursor |-> write_cursor, pc |-> pc]

SetFinishState(x) ==
    /\ inner' = x.inner
    /\ flipper' = x.flipper
    /\ read_cursor' = x.read_cursor
    /\ write_cursor' = x.write_cursor
    /\ pc' = x.pc
    /\ UNCHANGED <<input, root_hash, encVars, fnVars, chunk_len, total_len,
                   chunk_state, tree_state, callerVars, eventVars>>

SetFinishLocals(x) ==
    /\ SetFinishState(x)
    /\ finish_ret' = CASE x.pc = "w_done" -> Ok(root_hash)
                       [] x.pc = "w_error" -> Err(PropagateError("UnexpectedEof"))
                       [] OTHER -> finish_ret
    /\ sink_err' = IF x.pc = "w_error" THEN "UnexpectedEof" ELSE sink_err

\* finish, lines 291-293
FinishFlipStart ==
    /\ pc = "w_post_done"
    /\ SetFinishLocals(FinishFlipBegin(WriterFields))

WriterFeedParent ==
    /\ pc = "w_flip"
    /\ FlipperNext(flipper).kind = "FeedParent"
    /\ SetFinishLocals(FinishFeedParent(FinishLocals))

WriterTakeParent ==
    /\ pc = "w_flip"
    /\ FlipperNext(flipper).kind = "TakeParent"
    /\ SetFinishLocals(FinishTakeParent(FinishLocals))

WriterChunk ==
    /\ pc = "w_flip"
    /\ FlipperNext(flipper).kind = "Chunk"
    /\ SetFinishLocals(FinishChunk(FinishLocals, FlipperNext(flipper).size))

WriterDone ==
    /\ pc = "w_flip"
    /\ FlipperNext(flipper).kind = "Done"
    /\ SetFinishLocals(FinishDone(FinishLocals, total_len))

WriterNext ==
    \/ Write
    \/ WriteEmpty
    \/ FinishStart
    \/ FinishFlipStart
    \/ WriterFeedParent
    \/ WriterTakeParent
    \/ WriterChunk
    \/ WriterDone

WriterSpec == WriterInit /\ [][WriterNext]_vars

\* ------------------------------------------- the Writer over a failing sink
\* The io::ErrorKind values a sink operation reports.
Errors == {"Other", "UnexpectedEof"}

\* The ? of a failed sink operation: finish returns Err with the sink's error.
FailWith(e) ==
    /\ sink_err' = e
    /\ finish_ret' = Err(PropagateError(e))

SetFinishFailed(x, e) ==
    /\ SetFinishState(x)
    /\ FailWith(e)

\* The caller writes a byte or a chunk's worth at a time to a sink that
\* accepts whatever it is offered.
FullWrite ==
    /\ pc = "writer"
    /\ \E n \in {1, CHUNK_SIZE} :
         /\ n <= MaxWriterLen - Len(input)
         /\ WriteCall(n, n)
    /\ UNCHANGED <<pc, source, root_hash, encVars, flipVars, fnVars, resultVars, eventVars>>

\* finish, lines 273-288, one of its write_all calls failing
FinishStartFails ==
    /\ pc = "writer"
    /\ \E e \in Errors, k \in 1..FinishPostOrderWrites(WriterFields) :
         /\ SetWriterFields(FinishPostOrderFails(WriterFields, k))
         /\ FailWith(e)
    /\ pc' = "w_error"
    /\ UNCHANGED <<input, root_hash, encVars, flipVars, fnVars, callerVars, eventVars>>

\* finish, line 292, the seek failing
FinishFlipStartFails ==
    /\ pc = "w_post_done"
    /\ \E e \in Errors : SetFinishFailed(Stopped(FinishLocals, "w_error"), e)

WriterFeedParentFails ==
    /\ pc = "w_flip"
    /\ FlipperNext(flipper).kind = "FeedParent"
    /\ read_cursor >= PARENT_SIZE
    /\ \E e \in Errors, k \in 1..FeedParentOps :
         SetFinishFailed(FinishFeedParentFails(FinishLocals, k), e)

WriterTakeParentFails ==
    /\ pc = "w_flip"
    /\ FlipperNext(flipper).kind = "TakeParent"
    /\ ~take_parent(flipper).panic
    /\ write_cursor >= PARENT_SIZE
    /\ \E e \in Errors, k \in 1..TakeParentOps :
         SetFinishFailed(FinishTakeParentFails(FinishLocals, k), e)

WriterChunkFails ==
    /\ pc = "w_flip"
    /\ FlipperNext(flipper).kind = "Chunk"
    /\ LET size == FlipperNext(flipper).size
       IN  /\ read_cursor >= size
           /\ \E e \in Errors, k \in 1..ChunkOps :
                /\ k >= 3 => /\ write_cursor >= size
                             /\ SinkReadExact(SinkSeek(inner, read_cursor - size),
                                              size).ok
                /\ SetFinishFailed(FinishChunkFails(FinishLocals, size, k), e)

WriterDoneFails ==
    /\ pc = "w_flip"
    /\ FlipperNext(flipper).kind = "Done"
    /\ write_cursor = HEADER_SIZE
    /\ \E e \in Errors, k \in 1..DoneOps :
         SetFinishFailed(FinishDoneFails(FinishLocals, k), e)

FailNext ==
    \/ FullWrite
    \/ FinishStart
    \/ FinishFlipStart
    \/ WriterFeedParent
    \/ WriterTakeParent
    \/ WriterChunk
    \/ WriterDone
    \/ FinishStartFails
    \/ FinishFlipStartFails
    \/ WriterFeedParentFails
    \/ WriterTakeParentFails
    \/ WriterChunkFails
    \/ WriterDoneFails

FailSpec == WriterInit /\ [][FailNext]_vars

\* --------------------------------------- the size and count functions
\* Every u64 content length and every chunk index of it.
FnInit ==
    /\ pc = "fn"
    /\ fn_len \in 0..(U64 - 1)
    /\ fn_chunk \in 0..(count_chunks(fn_len) - 1)
    /\ fn_out = [fn |-> "none", value |-> 0]
    /\ input = <<>>
    /\ rest = <<>>
    /\ output = <<>>
    /\ state = StateNew
    /\ root_hash = <<>>
    /\ header = <<>>
    /\ flipper = FlipperNew(0)
    /\ read_cursor = 0
    /\ write_cursor = 0
    /\ WriterUnused
    /\ feeds = 0
    /\ takes = 0

Returned(fn, value) ==
    /\ pc = "fn"
    /\ pc' = "fn_done"
    /\ fn_out' = [fn |-> fn, value |-> value]
    /\ UNCHANGED <<fn_len, fn_chunk, input, root_hash, encVars, flipVars, writerVars, callerVars,
                   resultVars, eventVars>>

CallCountChunks == Returned("count_chunks", count_chunks(fn_len))

CallEncodedSize == Returned("encoded_size", encoded_size(fn_len))

CallPreOrderParentNodes ==
    Returned("pre_order_parent_nodes", pre_order_parent_nodes(fn_chunk, fn_len))

CallPostOrderParentNodes ==
    Returned("post_order_parent_nodes",
             post_order_parent_nodes(fn_chunk, count_chunks(fn_len)))

FnNext ==
    \/ CallCountChunks
    \/ CallEncodedSize
    \/ CallPreOrderParentNodes
    \/ CallPostOrderParentNodes

FnSpec == FnInit /\ [][FnNext]_vars

\* ------------------------------------------- the flipper driven by next()
\* FlipperState on its own, for every u64 content length: the caller does
\* what next() says and feeds payloads whose bytes do not matter.
FlipperInit ==
    /\ pc = "flipper"
    /\ fn_len \in 0..(U64 - 1)
    /\ fn_chunk = 0
    /\ fn_out = [fn |-> "none", value |-> 0]
    /\ input = <<>>
    /\ rest = <<>>
    /\ output = <<>>
    /\ state = StateNew
    /\ root_hash = <<>>
    /\ header = <<>>
    /\ flipper = FlipperNew(fn_len)
    /\ read_cursor = 0
    /\ write_cursor = 0
    /\ WriterUnused
    /\ feeds = 0
    /\ takes = 0

AnyParent == [i \in 1..PARENT_SIZE |-> DataByte(0)]

Driven(f, failed, event) ==
    /\ flipper' = f
    /\ pc' = IF failed THEN "flipper_panic" ELSE pc
    /\ feeds' = feeds + (IF event = "FeedParent" THEN 1 ELSE 0)
    /\ takes' = takes + (IF event = "TakeParent" THEN 1 ELSE 0)
    /\ UNCHANGED <<input, root_hash, encVars, read_cursor, write_cursor, fnVars,
                   writerVars, callerVars, resultVars>>

DriveFeedParent ==
    /\ pc = "flipper"
    /\ FlipperNext(flipper).kind = "FeedParent"
    /\ LET fed == feed_parent(flipper, AnyParent)
       IN  Driven(fed.flipper, fed.panic, "FeedParent")

DriveTakeParent ==
    /\ pc = "flipper"
    /\ FlipperNext(flipper).kind = "TakeParent"
    /\ LET taken == take_parent(flipper)
       IN  Driven(taken.flipper, taken.panic, "TakeParent")

DriveChunk ==
    /\ pc = "flipper"
    /\ FlipperNext(flipper).kind = "Chunk"
    /\ Driven(chunk_moved(flipper), FALSE, "Chunk")

DriveDone ==
    /\ pc = "flipper"
    /\ FlipperNext(flipper).kind = "Done"
    /\ pc' = "flipper_done"
    /\ UNCHANGED <<input, root_hash, encVars, flipVars, fnVars, writerVars,
                   callerVars, resultVars, eventVars>>

FlipperStep ==
    \/ DriveFeedParent
    \/ DriveTakeParent
    \/ DriveChunk
    \/ DriveDone

FlipperSpec == FlipperInit /\ [][FlipperStep]_vars

\* ------------------------------------------------------- reference tree
\* The bytes of chunk number c (0-based) of an input.
ChunkOf(in, c) ==
    SubSeq(in, c * CHUNK_SIZE + 1, Min(Len(in), (c + 1) * CHUNK_SIZE))

\* Brute-force hash of the subtree over chunks [start, start + size).
RECURSIVE RefHash(_, _, _, _)
RefHash(in, start, size, finalization) ==
    IF size = 1 THEN hash_node(ChunkOf(in, start), finalization)
    ELSE LET split == largest_power_of_two(size - 1)
         IN  hash_node(RefHash(in, start, split, NotRoot)
                         \o RefHash(in, start + split, size - split, NotRoot),
                       finalization)

RefChunks(in) == Max(1, (Len(in) + CHUNK_SIZE - 1) \div CHUNK_SIZE)

RefRoot(in) == RefHash(in, 0, RefChunks(in), Root(Len(in)))

\* Pre-order traversal of the same tree.
RECURSIVE RefPreOrder(_, _, _)
RefPreOrder(in, start, size) ==
    IF size = 1 THEN ChunkOf(in, start)
    ELSE LET split == largest_power_of_two(size - 1)
         IN  RefHash(in, start, split, NotRoot)
               \o RefHash(in, start + split, size - split, NotRoot)
               \o RefPreOrder(in, start, split)
               \o RefPreOrder(in, start + split, size - split)

\* Post-order traversal of the same tree.
RECURSIVE RefPostOrder(_, _, _)
RefPostOrder(in, start, size) ==
    IF size = 1 THEN ChunkOf(in, start)
    ELSE LET split == largest_power_of_two(size - 1)
         IN  RefPostOrder(in, start, split)
               \o RefPostOrder(in, start + split, size - split)
               \o RefHash(in, start, split, NotRoot)
               \o RefHash(in, start + split, size - split, NotRoot)

\* The 8 bytes of a little-endian length, written out independently of
\* encode_len.
RefHeader(len) ==
    <<DataByte(len % 256), DataByte((len \div 256) % 256),
      DataByte((len \div 65536) % 256), DataByte(0), DataByte(0),
      DataByte(0), DataByte(0), DataByte(0)>>

\* C1: the buffer returned by encode is the 8-byte little-endian length
\* followed by the pre-order traversal of the tree split at the largest
\* power of two strictly less than the chunk count; and the buffer that
\* flip_in_place starts from is the post-order traversal of that tree
\* followed by the length.
C1_EncodeIsPreOrder ==
    /\ pc = "done" =>
         output = RefHeader(Len(input)) \o RefPreOrder(input, 0, RefChunks(input))
    /\ pc = "flip" /\ read_cursor + HEADER_SIZE = Len(output) /\ flipper.parents = <<>>
         /\ write_cursor = Len(output) =>
         output = RefPostOrder(input, 0, RefChunks(input)) \o RefHeader(Len(input))
    /\ pc # "panic"

C1_Witness ==
    /\ pc = "done"
    /\ RefChunks(input) >= 5
    /\ Len(input) % CHUNK_SIZE # 0
    /\ input = InputOf(Len(input), "index")
    /\ output = RefHeader(Len(input)) \o RefPreOrder(input, 0, RefChunks(input))

\* C2: the root hash returned by encode is the root hash of the brute-force
\* reference, finalized Root(L) at the root of the whole tree only.
C2_RootHashMatchesReference ==
    pc \in {"post_done", "flip", "done"} => root_hash = RefRoot(input)

C2_Witness ==
    /\ pc = "done"
    /\ RefChunks(input) >= 5
    /\ root_hash = RefRoot(input)

\* C4: during the flip no byte that the read cursor has not yet passed is
\* overwritten: a FeedParent, TakeParent or Chunk step writes only to
\* [write_cursor', write_cursor), which lies at or above read_cursor', and
\* every byte below read_cursor' keeps its value.
C4_NoUnreadByteOverwritten ==
    [][(pc = "flip" /\ pc' # "done") =>
          /\ pc' = "flip"
          /\ write_cursor' >= read_cursor'
          /\ write_cursor' <= write_cursor
          /\ \A i \in 1..Len(output) :
                output'[i] # output[i] =>
                    /\ i - 1 >= read_cursor'
                    /\ i - 1 >= write_cursor'
                    /\ i - 1 < write_cursor]_vars

\* A chunk of a tree of several chunks has been moved onto bytes of its own
\* source range (the write range began below the old read cursor).
C4_Witness ==
    /\ pc = "flip"
    /\ RefChunks(input) >= 3
    /\ flipper.chunk_moved < RefChunks(input)
    /\ flipper.parents_available = pre_order_parent_nodes(flipper.chunk_moved, Len(input))
    /\ write_cursor < read_cursor + chunk_size(flipper.chunk_moved, Len(input))
    /\ input = InputOf(Len(input), "index")

\* C5: the flipper driven by next() reaches Done, and when Done fires the
\* write cursor equals HEADER_SIZE.
C5_FlipReachesDoneAtHeader ==
    /\ <>(pc = "done")
    /\ [](pc = "flip" /\ FlipperNext(flipper).kind = "Done" =>
            write_cursor = HEADER_SIZE)

C5_Witness ==
    /\ pc = "done"
    /\ RefChunks(input) >= 5
    /\ write_cursor = HEADER_SIZE
    /\ read_cursor = 0

\* C6: encode returns exactly encoded_size(L) = L + (count_chunks(L) - 1) *
\* PARENT_SIZE + HEADER_SIZE bytes whose first 8 bytes decode to L; the empty
\* input yields exactly HEADER_SIZE bytes.
C6_EncodedLength ==
    pc = "done" =>
        /\ Len(output) = encoded_size(Len(input))
        /\ encoded_size(Len(input))
             = Len(input) + (count_chunks(Len(input)) - 1) * PARENT_SIZE + HEADER_SIZE
        /\ decode_len(SubSeq(output, 1, HEADER_SIZE)) = Len(input)
        /\ SubSeq(output, 1, HEADER_SIZE) = RefHeader(Len(input))
        /\ Len(input) = 0 => Len(output) = HEADER_SIZE

C6_Witness ==
    /\ pc = "done"
    /\ Len(input) = 4 * CHUNK_SIZE + 1
    /\ Len(output) = Len(input) + 4 * PARENT_SIZE + HEADER_SIZE
    /\ decode_len(SubSeq(output, 1, HEADER_SIZE)) = Len(input)

\* The chunk count of a content length in unbounded arithmetic.
MathChunks(len) == Max(1, (len + CHUNK_SIZE - 1) \div CHUNK_SIZE)

RECURSIVE TrailingOnes(_)
TrailingOnes(x) == IF x % 2 = 1 THEN 1 + TrailingOnes(x \div 2) ELSE 0

RECURSIVE PopCount(_)
PopCount(x) == IF x = 0 THEN 0 ELSE (IF x % 2 = 1 THEN 1 ELSE 0) + PopCount(x \div 2)

RECURSIVE TrailingZerosOfPositive(_)
TrailingZerosOfPositive(x) ==
    IF x % 2 = 0 THEN 1 + TrailingZerosOfPositive(x \div 2) ELSE 0

RECURSIVE BitLength(_)
BitLength(x) == IF x = 0 THEN 0 ELSE 1 + BitLength(x \div 2)

\* C7: pre_order_parent_nodes(c, L) = min(bit_length(N - c - 1),
\* trailing_zeros(c)), trailing_zeros(0) unbounded, and it is the number of
\* non-leaf subtrees of the reference walker whose left-most chunk is c.
C7_PreOrderCountMatchesWalker ==
    fn_out.fn = "pre_order_parent_nodes" =>
        LET N == MathChunks(fn_len)
        IN  /\ fn_out.value = recurse_pre(0, N, fn_chunk)
            /\ fn_out.value =
                 IF fn_chunk = 0 THEN BitLength(N - 1)
                 ELSE Min(BitLength(N - fn_chunk - 1), TrailingZerosOfPositive(fn_chunk))

\* chunk 4 of a tree of 7 chunks opens a subtree of 3 chunks: 2 parents.
C7_Witness ==
    /\ fn_out.fn = "pre_order_parent_nodes"
    /\ MathChunks(fn_len) = 7
    /\ fn_chunk = 4
    /\ fn_out.value = 2

\* C8: the post-order parent count of chunk c - trailing ones of c before
\* the last chunk, popcount of c at the last chunk - is the number of
\* non-leaf subtrees of the reference walker whose right-most chunk is c.
C8_PostOrderCountMatchesWalker ==
    fn_out.fn = "post_order_parent_nodes" =>
        LET N == MathChunks(fn_len)
        IN  /\ fn_out.value = recurse_post(0, N, fn_chunk)
            /\ fn_out.value =
                 IF fn_chunk < N - 1 THEN TrailingOnes(fn_chunk) ELSE PopCount(fn_chunk)

\* the last chunk of 7 chunks (index 6 = 0b110) closes 2 subtrees.
C8_Witness ==
    /\ fn_out.fn = "post_order_parent_nodes"
    /\ MathChunks(fn_len) = 7
    /\ fn_chunk = 6
    /\ fn_out.value = 2

\* C10: count_chunks(L) = max(1, ceil(L / CHUNK_SIZE)) for every L of the
\* word, the maximum included, no intermediate value leaving the word; and
\* encoded_size(L) = L + (count_chunks(L) - 1) * PARENT_SIZE + HEADER_SIZE
\* within the double-width word.
C10_NoOverflow ==
    /\ fn_out.fn = "count_chunks" =>
          /\ fn_out.value = MathChunks(fn_len)
          /\ fn_len \div CHUNK_SIZE + 1 < U64
    /\ fn_out.fn = "encoded_size" =>
          /\ fn_out.value
               = fn_len + (MathChunks(fn_len) - 1) * PARENT_SIZE + HEADER_SIZE
          /\ fn_len + (MathChunks(fn_len) - 1) * PARENT_SIZE + HEADER_SIZE < U128

C10_Witness ==
    /\ fn_out.fn = "count_chunks"
    /\ fn_len = U64 - 1
    /\ fn_out.value = MathChunks(U64 - 1)
    /\ fn_out.value > 1

\* C3: when the sink accepts every byte it is offered, however the input is
\* split into write calls, finish leaves in the sink exactly the bytes that
\* encode returns for the bytes written, and returns the same root hash.
C3_WriterMatchesEncode ==
    (pc = "w_done" /\ ~short_seen) =>
        /\ inner.data = encode(input).output
        /\ root_hash = encode(input).hash
        /\ ~encode(input).panicked

C3_Witness ==
    /\ pc = "w_done"
    /\ ~short_seen
    /\ Len(input) = 4 * CHUNK_SIZE + 1
    /\ source = "index"
    /\ written = 1
    /\ inner.data = encode(input).output
    /\ root_hash = encode(input).hash

\* The last n bytes of a sequence.
LastBytes(seq, n) == SubSeq(seq, Len(seq) - n + 1, Len(seq))

C11_SinkErrorReturnedUnchanged ==
    /\ [](sink_err # "none" =>
            /\ pc = "w_error"
            /\ finish_ret = Err(sink_err)
            /\ finish_ret.hash = <<>>)
    /\ [][sink_err # "none" => inner' = inner]_vars

C11_Witness ==
    /\ pc = "w_error"
    /\ sink_err = "UnexpectedEof"
    /\ total_len > CHUNK_SIZE
    /\ Len(flipper.parents) > 0
    /\ read_cursor < write_cursor
    /\ inner.pos # Len(inner.data)

\* The number of chunks encode_post_order has appended so far.
ChunksEncoded == (Len(input) - Len(rest) + CHUNK_SIZE - 1) \div CHUNK_SIZE

\* C12: for an input longer than CHUNK_SIZE, each iteration of the chunk loop
\* appends chunk c followed by exactly trailing_ones(c) parent payloads when
\* c is not the last chunk, and by exactly popcount(N - 1) payloads and the
\* 8-byte length trailer when it is; the finished buffer is the post-order
\* traversal of the tree (children before their parent, left before right)
\* followed by the trailer.
C12_PostOrderLayout ==
    /\ [](pc = "post_done" /\ Len(input) > CHUNK_SIZE =>
            output = RefPostOrder(input, 0, RefChunks(input))
                       \o RefHeader(Len(input)))
    /\ [][pc = "post_loop" =>
            LET c == ChunksEncoded
                N == RefChunks(input)
                added == Len(output') - Len(output) - Len(ChunkOf(input, c))
            IN  /\ SubSeq(output', 1, Len(output)) = output
                /\ SubSeq(output', Len(output) + 1,
                          Len(output) + Len(ChunkOf(input, c))) = ChunkOf(input, c)
                /\ c < N - 1 => added = PARENT_SIZE * TrailingOnes(c)
                /\ c = N - 1 =>
                     /\ added = PARENT_SIZE * PopCount(N - 1) + HEADER_SIZE
                     /\ LastBytes(output', HEADER_SIZE) = RefHeader(Len(input))]_vars

C12_Witness ==
    /\ pc = "post_done"
    /\ RefChunks(input) = 7
    /\ Len(input) % CHUNK_SIZE # 0
    /\ Len(output) = Len(input) + 6 * PARENT_SIZE + HEADER_SIZE

\* The chunks under the entries of a subtree stack below entry i.
RECURSIVE ChunksBelow(_, _)
ChunksBelow(subtrees, i) ==
    IF i <= 1 THEN 0 ELSE subtrees[i - 1].size + ChunksBelow(subtrees, i - 1)

IsPowerOfTwo(x) == x > 0 /\ Pow2(BitLength(x) - 1) = x

\* Bit b of k is set.
BitSet(k, b) == (k \div b) % 2 = 1

\* The stack st holds the complete subtrees of the first k chunks of in.
StackOfCompleteSubtrees(st, in, k) ==
    LET stack == st.subtrees
    IN  /\ Len(stack) = PopCount(k)
        /\ \A i \in 1..Len(stack) :
             /\ IsPowerOfTwo(stack[i].size)
             /\ BitSet(k, stack[i].size)
             /\ i > 1 => stack[i].size < stack[i - 1].size
             /\ stack[i].hash = RefHash(in, ChunksBelow(stack, i), stack[i].size,
                                        NotRoot)
        /\ ChunksBelow(stack, Len(stack) + 1) = k

\* C13: after k chunk hashes have been pushed, merge_parent drained after each
\* push, the subtree stack holds exactly popcount(k) entries; each is the
\* NotRoot hash of a complete subtree over a power-of-two number of chunks,
\* the sizes are the powers of two of the set bits of k, and they strictly
\* decrease from the bottom of the stack to the top.
C13_StackIsBinaryOfCount ==
    pc = "post_loop" => StackOfCompleteSubtrees(state, input, ChunksEncoded)

C13_Witness ==
    /\ pc = "post_loop"
    /\ ChunksEncoded = 6
    /\ Len(state.subtrees) = 2
    /\ state.subtrees[1].size = 4
    /\ state.subtrees[2].size = 2

\* The same shape of the Writer's stack between calls to write (lines
\* 336-344): every chunk rolled is one push followed by the same drain.
C13_WriterStack ==
    pc = "writer" =>
        StackOfCompleteSubtrees(tree_state, input,
                                (total_len - chunk_len) \div CHUNK_SIZE)

\* The hash term a hash's bytes were cut from.
HashTermOf(hash) == hash[1].h

\* The number of node hashes finalised as Root among the hashes whose bytes
\* occur in a byte string, and among a hash and the hashes it was computed
\* from.
RECURSIVE RootHashesBetween(_, _, _)
RECURSIVE RootHashes(_)
RootHashesBetween(bytes, lo, hi) ==
    IF lo > hi THEN 0
    ELSE IF lo = hi
    THEN (IF bytes[lo].h # NoHash /\ bytes[lo].v = 0
          THEN RootHashes(bytes[lo].h) ELSE 0)
    ELSE LET mid == (lo + hi) \div 2
         IN  RootHashesBetween(bytes, lo, mid)
               + RootHashesBetween(bytes, mid + 1, hi)

RootHashes(t) ==
    (IF t.fin # NotRoot THEN 1 ELSE 0) + RootHashesBetween(t.data, 1, Len(t.data))

RootHashesIn(bytes) == RootHashesBetween(bytes, 1, Len(bytes))

\* What the calls of the merge_finish loop return: TRUE for Some(root).
RECURSIVE MergeFinishReturns(_, _)
MergeFinishReturns(st, finalization) ==
    LET m == merge_finish(st, finalization)
    IN  IF m.is_root THEN <<TRUE>>
        ELSE <<FALSE>> \o MergeFinishReturns(m.state, finalization)

\* The hash on top of the stack after each call of the merge_finish loop.
RECURSIVE MergeFinishPushes(_, _)
MergeFinishPushes(st, finalization) ==
    LET m == merge_finish(st, finalization)
        top == m.state.subtrees[Len(m.state.subtrees)].hash
    IN  IF m.is_root THEN <<top>>
        ELSE <<top>> \o MergeFinishPushes(m.state, finalization)

\* C14: for an input longer than CHUNK_SIZE exactly one node hash is computed
\* with Root(L), the one of the last fold of the merge_finish loop: the loop's
\* calls return None popcount(N - 1) - 1 times, each pushing a NotRoot hash
\* back, and Some(root) on call number popcount(N - 1); every chunk hash and
\* every merge_parent hash is computed with NotRoot.
C14_RootAppliedOnce ==
    /\ pc = "post_loop" =>
         /\ RootHashesIn(output) = 0
         /\ \A i \in 1..Len(state.subtrees) :
              RootHashes(HashTermOf(state.subtrees[i].hash)) = 0
    /\ pc = "post_loop" /\ Len(rest) <= CHUNK_SIZE =>
         LET finalization == Root(Len(input) % U64)
             st == push_subtree(state, ChunkHash(rest, finalization))
             calls == PopCount(RefChunks(input) - 1)
             pushes == MergeFinishPushes(st, finalization)
         IN  /\ MergeFinishReturns(st, finalization)
                  = [i \in 1..calls |-> i = calls]
             /\ \A i \in 1..calls :
                  HashTermOf(pushes[i]).fin
                    = IF i = calls THEN finalization ELSE NotRoot
    /\ pc = "post_done" /\ Len(input) > CHUNK_SIZE =>
         /\ HashTermOf(root_hash).fin = Root(Len(input))
         /\ RootHashes(HashTermOf(root_hash)) = 1
         /\ RootHashesIn(output) = 0

C14_Witness ==
    /\ pc = "post_done"
    /\ RefChunks(input) = 8
    /\ PopCount(RefChunks(input) - 1) = 3
    /\ HashTermOf(root_hash).fin = Len(input)
    /\ RootHashesIn(output) = 0

\* The same for the post-order part of finish (lines 274-287).
C14_WriterRoot ==
    pc = "w_post_done" /\ total_len > CHUNK_SIZE =>
        /\ HashTermOf(root_hash).fin = Root(total_len)
        /\ RootHashes(HashTermOf(root_hash)) = 1
        /\ RootHashesIn(inner.data) = 0

\* C15: while next() drives the flip, every transition is taken with its
\* assertions true: feed_parent only with parents_needed > 0,
\* parents_available = 0 and chunk_moved > 0; take_parent only with
\* parents_available > 0; chunk_moved() only with chunk_moved > 0 and both
\* counters 0.
C15_TransitionAssertsHold ==
    [][pc = "flip" =>
         /\ Len(flipper'.parents) > Len(flipper.parents) =>
              FeedParentAsserts(flipper)
         /\ Len(flipper'.parents) < Len(flipper.parents) =>
              TakeParentAsserts(flipper)
         /\ flipper'.chunk_moved # flipper.chunk_moved =>
              ChunkMovedAsserts(flipper)]_vars

C15_Witness ==
    /\ pc = "flip"
    /\ count_chunks(Len(input)) = 7
    /\ flipper.chunk_moved = 4
    /\ flipper.parents_needed = 2
    /\ FeedParentAsserts(flipper)

\* C16: the flipper's parents stack never holds more than MAX_DEPTH
\* payloads, and no push finds the stack full, for any content length.
C16_ParentsStackBounded ==
    /\ Len(flipper.parents) <= MAX_DEPTH
    /\ pc # "flipper_panic"
    /\ pc = "flipper" /\ FlipperNext(flipper).kind = "FeedParent" =>
         Len(flipper.parents) < MAX_DEPTH

C16_Witness ==
    /\ pc = "flipper"
    /\ Len(flipper.parents) = MAX_DEPTH

\* C17: next() answers by strict priority: TakeParent when parents_available
\* > 0; otherwise FeedParent when parents_needed > 0; otherwise, when
\* chunk_moved > 0, Chunk of min(CHUNK_SIZE, L - (chunk_moved - 1) *
\* CHUNK_SIZE) bytes; Done only when all three are zero.  So once
\* chunk_moved() has set both counters, every TakeParent for the chunk just
\* moved comes before any FeedParent for the chunk to its left: while
\* parents_available > 0 the step taken pops one payload and leaves
\* parents_needed alone.
C17_NextPriority ==
    /\ [](pc = "flipper" =>
            LET next == FlipperNext(flipper)
                L == flipper.content_len
            IN  /\ flipper.parents_available > 0 => next.kind = "TakeParent"
                /\ flipper.parents_available = 0 /\ flipper.parents_needed > 0 =>
                     next.kind = "FeedParent"
                /\ /\ flipper.parents_available = 0
                   /\ flipper.parents_needed = 0
                   /\ flipper.chunk_moved > 0
                   => /\ next.kind = "Chunk"
                      /\ next.size = Min(CHUNK_SIZE,
                                         L - (flipper.chunk_moved - 1) * CHUNK_SIZE)
                /\ next.kind = "Done" <=>
                     /\ flipper.parents_available = 0
                     /\ flipper.parents_needed = 0
                     /\ flipper.chunk_moved = 0)
    /\ [][pc = "flipper" /\ flipper.parents_available > 0 =>
            /\ flipper'.parents = SubSeq(flipper.parents, 1, Len(flipper.parents) - 1)
            /\ flipper'.parents_available = flipper.parents_available - 1
            /\ flipper'.parents_needed = flipper.parents_needed
            /\ flipper'.chunk_moved = flipper.chunk_moved]_vars

C17_Witness ==
    /\ pc = "flipper"
    /\ flipper.parents_available = 1
    /\ flipper.parents_needed = 2
    /\ flipper.chunk_moved = 4
    /\ Len(flipper.parents) > 1

\* C18: for any sequence of Writer::write calls followed by finish, when the
\* flipper created from total_len reports Done inside finish the write
\* cursor equals HEADER_SIZE (the assertion of line 320).
C18_WriterDoneAtHeader ==
    pc = "w_flip" /\ FlipperNext(flipper).kind = "Done" =>
        write_cursor = HEADER_SIZE

\* The same when every write was accepted in full.
C18_FullWritesDoneAtHeader ==
    pc = "w_flip" /\ FlipperNext(flipper).kind = "Done" /\ ~short_seen =>
        write_cursor = HEADER_SIZE

\* C19: between any two events of the in-place flip the gap between the
\* cursors is the header plus the payloads held by the flipper:
\* write_cursor - read_cursor = HEADER_SIZE + PARENT_SIZE * (number of
\* parents on the flipper's stack).
C19_CursorGap ==
    pc = "flip" =>
        write_cursor - read_cursor
          = HEADER_SIZE + PARENT_SIZE * Len(flipper.parents)

C19_Witness ==
    /\ pc = "flip"
    /\ Len(flipper.parents) = 3
    /\ flipper.chunk_moved < count_chunks(Len(input))
    /\ write_cursor - read_cursor = HEADER_SIZE + 3 * PARENT_SIZE

\* C20: parents_available never exceeds the number of payloads on the
\* flipper's stack, so take_parent never pops an empty stack; and when Done
\* fires the stack is empty, N - 1 FeedParent and N - 1 TakeParent events
\* having happened, for any content length of N chunks.
C20_TakeNeverUnderflows ==
    /\ flipper.parents_available <= Len(flipper.parents)
    /\ pc # "flipper_panic"
    /\ \/ pc = "flipper_done"
       \/ pc = "flipper" /\ FlipperNext(flipper).kind = "Done"
       => /\ flipper.parents = <<>>
          /\ feeds = MathChunks(fn_len) - 1
          /\ takes = MathChunks(fn_len) - 1

C20_Witness ==
    /\ pc = "flipper_done"
    /\ MathChunks(fn_len) > 16
    /\ takes = MathChunks(fn_len) - 1
    /\ flipper.parents = <<>>

\* The number of chunk hashes pushed into a subtree stack so far.
HashesPushed(st) == ChunksBelow(st.subtrees, Len(st.subtrees) + 1)

\* The accounting of the Writer between calls.
ChunkAccounting ==
    /\ chunk_len <= CHUNK_SIZE
    /\ HashesPushed(tree_state) = count_chunks(total_len) - 1
    /\ chunk_len = total_len - CHUNK_SIZE * HashesPushed(tree_state)
    /\ total_len > CHUNK_SIZE => Len(tree_state.subtrees) >= 1

\* C21: after any sequence of Writer::write calls, chunk_len <= CHUNK_SIZE,
\* the number of chunk hashes pushed into tree_state is
\* count_chunks(total_len) - 1, and chunk_len = total_len - CHUNK_SIZE * that
\* number: the last chunk, even when exactly full, stays in the chunk hasher
\* until more bytes arrive or finish is called, so that finish finds at
\* least one stack entry to merge with whenever total_len > CHUNK_SIZE.
C21_WriterChunkAccounting ==
    pc = "writer" => ChunkAccounting

\* The same when every write was accepted in full.
C21_FullWritesChunkAccounting ==
    pc = "writer" /\ ~short_seen => ChunkAccounting
====
